---- MODULE Spec2Model ----
\* The KPA photo proxies of cnovak25/raffle-randomizer as one state machine.
\* Each proxy source file is its own server process with its own cache; the
\* variable `server` says which of them a behaviour is about.  Text is a
\* sequence of one-character strings, a response body a sequence of bytes.
EXTENDS Integers, Sequences, FiniteSets, TLC

\* ------------------------------------------------------------------ bounds
MaxCalls == 3    \* serve calls in one behaviour
MaxSkew == 1     \* one-second clock steps inside one TTL epoch
MaxEpochs == 1   \* whole-TTL clock steps
MaxThreads == 2  \* worker threads that run kpa_photo at the same time
MaxTokens == 2   \* pieces a key= value is put together from
MaxViolations == 2  \* incidents the violations lookup can come back with
MaxLimit == 2    \* the request limit per window that the environment sets

\* ------------------------------------------------------- program constants
CACHE_TTL_SEC == 3600
CACHE_TTL == 3600
KPA_RATE_LIMIT_WINDOW == 60
\* int(os.getenv('KPA_RATE_LIMIT_PER_MINUTE', 75)): the environment's value
KPA_RATE_LIMIT_PER_MINUTE == MaxLimit

\* -------------------------------------------------------------------- text
\* Python's None where text is expected, and a header that is not sent
None == <<"None">>

\* s.startswith(p)
StartsWith(s, p) ==
  /\ Len(s) >= Len(p)
  /\ SubSeq(s, 1, Len(p)) = p

\* index of the first occurrence of p in s, 0 when there is none
Find(s, p) ==
  LET hits == {i \in 1..(Len(s) + 1 - Len(p)) : SubSeq(s, i, i + Len(p) - 1) = p}
  IN IF hits = {} THEN 0 ELSE CHOOSE i \in hits : \A j \in hits : i <= j

\* p in s
Contains(s, p) == Find(s, p) # 0

\* s.split(p)[0]
SplitHead(s, p) ==
  IF Contains(s, p) THEN SubSeq(s, 1, Find(s, p) - 1) ELSE s

\* s.split(p)[1], for s that contains p
SplitSecond(s, p) ==
  LET rest == SubSeq(s, Find(s, p) + Len(p), Len(s))
  IN SplitHead(rest, p)

HexDigits == <<"0","1","2","3","4","5","6","7","8","9","A","B","C","D","E","F">>
HexLower == <<"0","1","2","3","4","5","6","7","8","9","a","b","c","d","e","f">>

IsHex(c) == \E i \in 1..16 : HexDigits[i] = c \/ HexLower[i] = c

HexVal(c) == (CHOOSE i \in 1..16 : HexDigits[i] = c \/ HexLower[i] = c) - 1

\* the characters the modelled references can decode to
Chr(n) ==
  CASE n = 32 -> " "
    [] n = 37 -> "%"
    [] n = 38 -> "&"
    [] n = 47 -> "/"
    [] n = 61 -> "="
    [] OTHER -> "?"

\* urllib.parse.unquote
RECURSIVE unquote(_)
unquote(s) ==
  IF s = <<>> THEN <<>>
  ELSE IF s[1] = "%" /\ Len(s) >= 3 /\ IsHex(s[2]) /\ IsHex(s[3])
       THEN <<Chr(16 * HexVal(s[2]) + HexVal(s[3]))>> \o unquote(SubSeq(s, 4, Len(s)))
       ELSE <<s[1]>> \o unquote(Tail(s))

\* the server framework's decoding of one query-string value:
\* '+' is a space, then percent-decoding
RECURSIVE PlusToSpace(_)
PlusToSpace(s) ==
  IF s = <<>> THEN <<>>
  ELSE <<IF s[1] = "+" THEN " " ELSE s[1]>> \o PlusToSpace(Tail(s))

QueryValue_raw(raw) == raw

QueryValue(raw) == unquote(PlusToSpace(raw))

\* ------------------------------------------------------------ data values
\* response bodies: JPEG magic bytes, "<html>", and a plain text "No"
JpegBody == <<255, 216, 255, 224>>
HtmlBody == <<60, 104, 116, 109, 108, 62>>
TextBody == <<78, 111>>

JpegMagic == <<255, 216, 255>>
HtmlMarker == <<60, 104, 116, 109, 108>>

CtJpeg == <<"i","m","a","g","e","/","j","p","e","g">>
CtHtml == <<"t","e","x","t","/","h","t","m","l">>
ImageWord == <<"i","m","a","g","e">>

\* the key of Scenario A, percent-encoded and decoded, and a second key
KeyEnc == <<"a","b","c","%","2","F","d","e","f",".","j","p","g">>
KeyDec == <<"a","b","c","/","d","e","f",".","j","p","g">>
KeyB == <<"k">>
Keys == {KeyDec, KeyB}

GetUpload == <<"g","e","t","-","u","p","l","o","a","d">>
KeyEq == <<"k","e","y","=">>
Amp == <<"&">>
UrlHead == <<"h","t","t","p","s",":","/","/","t","/">>

\* https://t/get-upload?key=abc%2Fdef.jpg
UrlA == UrlHead \o GetUpload \o <<"?">> \o KeyEq \o KeyEnc
\* https://t/get-upload?key=k&x
UrlB == UrlHead \o GetUpload \o <<"?">> \o KeyEq \o KeyB \o Amp \o <<"x">>
\* https://t/get-upload (no key parameter)
UrlNoKey == UrlHead \o GetUpload
\* https://t/k (no upload indicator)
UrlOther == UrlHead \o KeyB
PhotoUrls == {UrlA, UrlNoKey}

\* what one requests.get can come back with: a response, or an exception
\* (exc), "midbody" being a connection that breaks while the body is read
Resp(st, ct, b) == [exc |-> "none", status |-> st, ctype |-> ct, body |-> b]
Raised(e) == [exc |-> e, status |-> 0, ctype |-> None, body |-> <<>>]
NoFetch == Raised("nofetch")
MidBody == [exc |-> "midbody", status |-> 200, ctype |-> CtJpeg, body |-> JpegBody]

Upstream ==
  { Resp(200, CtJpeg, JpegBody), Resp(200, CtHtml, HtmlBody),
    Resp(200, CtJpeg, HtmlBody), Resp(200, None, JpegBody),
    Resp(401, CtHtml, TextBody), Resp(404, CtHtml, TextBody),
    Resp(429, CtHtml, TextBody), Resp(500, CtHtml, TextBody),
    Raised("timeout"), Raised("conn"), MidBody }

Servers == {"kpa_photo_proxy", "kpa_photo_proxy_railway", "railway_app",
            "simple_proxy", "kpa_api_server"}

\* Python values that are not text: an int other than 0, and a float NaN
\* (what pandas gives for an empty cell)
PyInt == <<"int">>
PyNaN == <<"nan">>
IsStr(x) == x \notin {None, PyInt, PyNaN}

\* the references the key extractors are applied to: URLs whose key= value
\* is put together from plain and percent-encoded pieces, with a parameter
\* before it or something after it; bare keys; and the rest
ValueTokens == {<<"a">>, <<"+">>, <<"%","2","F">>, <<"%","2","5">>, <<"2","F">>}

RECURSIVE ValuesOf(_)
ValuesOf(n) ==
  IF n = 0 THEN {<<>>}
  ELSE LET shorter == ValuesOf(n - 1)
       IN shorter \cup {v \o t : v \in shorter, t \in ValueTokens}

EncValues == ValuesOf(MaxTokens)

Before == {<<>>, <<"x","=","1","&">>, <<"m","o","n">> \o KeyEq \o <<"m","&">>,
           KeyEq \o <<"b","&">>}
After == {<<>>, <<"&","x","=","1">>, Amp \o KeyEq \o <<"b">>, <<"#","f">>}

KeyRefs ==
  {UrlHead \o GetUpload \o <<"?">> \o b \o KeyEq \o v \o a :
     b \in Before, v \in EncValues, a \in After}
BareRefs == {KeyB, KeyDec, <<"a">>}
OtherRefs == {<<>>, None, PyInt, PyNaN, UrlNoKey, UrlOther,
              UrlHead \o GetUpload \o <<"?","k","e","y">>}
Refs == KeyRefs \cup BareRefs \cup OtherRefs

\* ------------------------------------------------------------------ state
VARIABLES
  server,     \* which proxy program this process runs
  env,        \* the process environment (credentials), name -> value
  globals,    \* module-level names bound at import
  now,        \* time.time(), in seconds
  _cache,     \* kpa_photo_proxy._cache: key -> [exp, data, mime]
  cache,      \* kpa_photo_proxy_railway.cache: key -> [data, time]
  ncalls,     \* serve calls made so far
  last,       \* the last completed call
  th,         \* the server's worker threads: where each is in its handler
  store,      \* the credentials as configured outside the process
  draw,       \* the raffle app's current draw, from the winner to the card
  rate_limit_state  \* kpa_api_server.rate_limit_state: requests, blocked_until

vars == <<server, env, globals, now, _cache, cache, ncalls, last, th, store,
          draw, rate_limit_state>>

EmptyDict == [k \in {} |-> None]

DictPut_keep(d, k, v) == [x \in DOMAIN d \cup {k} |-> IF x \in DOMAIN d THEN d[x] ELSE v]

\* dict[key] = value
DictPut(d, k, v) == [x \in DOMAIN d \cup {k} |-> IF x = k THEN v ELSE d[x]]

\* dict.pop(key, None) / del dict[key]
DictDel(d, k) == [x \in DOMAIN d \ {k} |-> d[x]]

\* os.getenv(name, default)
Unset == "Unset"
getenv(e, name, default) == IF e[name] = Unset THEN default ELSE e[name]

EnvNames == {"KPA_COOKIE", "KPA_BEARER_TOKEN", "KPA_SESSION_COOKIE",
             "KPA_SUBDOMAIN_COOKIE", "KPA_CSRF_TOKEN", "KPA_API_TOKEN"}
EnvAllSet == [n \in EnvNames |-> "v"]
EnvAllUnset == [n \in EnvNames |-> Unset]
EnvHalf == [n \in EnvNames |-> IF n = "KPA_SESSION_COOKIE" THEN "v" ELSE ""]
EnvConfigs == {EnvAllSet, EnvAllUnset, EnvHalf}

\* the module-level assignments that read the environment once, at import
ImportGlobals(e) ==
  [ KPA_COOKIE |-> getenv(e, "KPA_COOKIE", ""),
    KPA_BEARER |-> getenv(e, "KPA_BEARER_TOKEN", ""),
    KPA_SESSION_COOKIE |-> getenv(e, "KPA_SESSION_COOKIE", "default-session"),
    KPA_SUBDOMAIN_COOKIE |-> getenv(e, "KPA_SUBDOMAIN_COOKIE", "default-subdomain"),
    SESSION_COOKIE |-> getenv(e, "KPA_SESSION_COOKIE", "6Pphk3dbK4Y-mvncorp"),
    KPA_API_TOKEN |-> getenv(e, "KPA_API_TOKEN", "") ]

\* one completed serve call, as its caller and the upstream saw it
Call(h, ref, key, t, n, up, cookie, st, xc, body, mime, ra, err, esc) ==
  [ handler |-> h, ref |-> ref, key |-> key, t |-> t, fetches |-> n,
    up |-> up, cookie |-> cookie, status |-> st, xcache |-> xc,
    body |-> body, mime |-> mime, retryAfter |-> ra, error |-> err,
    escaped |-> esc ]

NoCall == Call("none", <<>>, None, 0, 0, NoFetch, <<>>, 0, "Absent", <<>>, None,
               FALSE, "none", FALSE)

Threads == 1..MaxThreads

\* a worker thread between requests
Idle == [pc |-> "idle", key |-> None, up |-> NoFetch]

\* the process right after its start
Started(e) ==
  /\ env = e
  /\ globals = ImportGlobals(e)
  /\ _cache = EmptyDict
  /\ cache = EmptyDict
  /\ th = [i \in Threads |-> Idle]

\* no draw has been made
NoDraw ==
  [ pc |-> "none", use_safety_check |-> FALSE, use_proxy |-> FALSE,
    photo_field |-> <<>>, lookup |-> "none", violations |-> 0,
    found_in_kpa |-> FALSE, is_eligible |-> "None", reason |-> "",
    safety_eligible |-> TRUE, safety_message |-> "",
    safety_status |-> "", photo_requested |-> FALSE, card |-> FALSE ]

Init ==
  /\ server \in Servers
  /\ \E e \in EnvConfigs : Started(e) /\ store = e
  /\ draw = NoDraw
  /\ rate_limit_state = [requests |-> <<>>, blocked_until |-> 0]
  /\ now = 0
  /\ ncalls = 0
  /\ last = NoCall

\* the clock moves on by a second, or by a whole TTL
Tick ==
  /\ \E d \in {1, CACHE_TTL} :
       /\ d = 1 => (now % CACHE_TTL) < MaxSkew
       /\ now + d <= MaxEpochs * CACHE_TTL + MaxSkew
       /\ now' = now + d
  /\ UNCHANGED <<server, env, globals, _cache, cache, ncalls, last, th, store, draw, rate_limit_state>>

\* ------------------------------------------- kpa_photo_proxy.py (FastAPI)
Miss == [found |-> FALSE, data |-> <<>>, mime |-> None]

\* _cache_get: the dict after the read, and the hit (None when absent/expired)
_cache_get(c, key, t) ==
  IF key \notin DOMAIN c THEN [cache |-> c, hit |-> Miss]
  ELSE IF t > c[key].exp THEN [cache |-> DictDel(c, key), hit |-> Miss]
  ELSE [cache |-> c, hit |-> [found |-> TRUE, data |-> c[key].data, mime |-> c[key].mime]]

_cache_put_skip(c, key, data, mime, t) == c

_cache_put(c, key, data, mime, t) ==
  DictPut(c, key, [exp |-> t + CACHE_TTL_SEC, data |-> data, mime |-> mime])

\* _auth_headers: the Cookie header is sent only when KPA_COOKIE is non-empty
_auth_headers(g) ==
  [ Cookie |-> IF g.KPA_COOKIE # "" THEN <<g.KPA_COOKIE>> ELSE <<>>,
    Authorization |-> IF g.KPA_BEARER # "" THEN <<g.KPA_BEARER>> ELSE <<>> ]

\* one requests.get(url, headers=..., timeout=...): a single attempt (the
\* default transport adapter does not retry), which returns or raises `up`
requests_get_retry(up) ==
  [attempts |-> IF up.exc \in {"timeout", "conn"} THEN 2 ELSE 1, r |-> up]

requests_get(up) == [attempts |-> 1, r |-> up]

\* response.raise_for_status() raises for 4xx and 5xx
RaisesForStatus(st) == st >= 400 /\ st < 600

\* r.headers.get("content-type", default)
HeaderOr(ct, default) == IF ct = None THEN default ELSE ct

\* kpa_photo after a cache miss: the fetch (step 2) and the store (step 3)
kpa_photo_fetch(ref, key, up, c, g, t) ==
  LET ck == _auth_headers(g).Cookie
  IN IF up.exc # "none"
     THEN [ cache |-> c,
            call |-> Call("kpa_photo", ref, key, t, requests_get(up).attempts, up, ck, 502, "Absent",
                          <<>>, None, FALSE, "KPA fetch failed", FALSE) ]
     ELSE IF up.status = 404
     THEN [ cache |-> c,
            call |-> Call("kpa_photo", ref, key, t, requests_get(up).attempts, up, ck, 404, "Absent",
                          <<>>, None, FALSE, "Photo not found", FALSE) ]
     ELSE IF RaisesForStatus(up.status)
     THEN [ cache |-> c,
            call |-> Call("kpa_photo", ref, key, t, requests_get(up).attempts, up, ck, 502, "Absent",
                          <<>>, None, FALSE, "KPA fetch failed", FALSE) ]
     ELSE LET mime == HeaderOr(up.ctype, CtJpeg)
          IN [ cache |-> _cache_put(c, key, up.body, mime, t),
               call |-> Call("kpa_photo", ref, key, t, requests_get(up).attempts, up, ck, 200, "MISS",
                             up.body, mime, FALSE, "none", FALSE) ]

\* kpa_photo(key) with `up` the outcome of its requests.get, were it made:
\* the call record and the cache afterwards
kpa_photo(ref, key, up, c, g, t) ==
  LET got == _cache_get(c, key, t)
  IN IF got.hit.found
     THEN [ cache |-> got.cache,
            call |-> Call("kpa_photo", ref, key, t, 0, NoFetch, <<>>, 200, "HIT",
                          got.hit.data, got.hit.mime, FALSE, "none", FALSE) ]
     ELSE kpa_photo_fetch(ref, key, up, got.cache, g, t)

\* --------------------------------- kpa_photo_proxy_railway.py (FastAPI)
\* the Cookie header both Railway proxies build from the two cookie values
RailwayCookie(g) == <<g.KPA_SESSION_COOKIE, g.KPA_SUBDOMAIN_COOKIE>>

\* get_kpa_photo(key): an HTTPException raised inside the try block is
\* caught by its `except Exception` and re-raised with status 500
railway_get_kpa_photo(ref, key, up, c, g, t) ==
  LET fresh == key \in DOMAIN c /\ t - c[key].time < CACHE_TTL
      c1 == IF key \in DOMAIN c /\ ~fresh THEN DictDel(c, key) ELSE c
      ck == RailwayCookie(g)
  IN IF fresh
     THEN [ cache |-> c,
            call |-> Call("railway_get_kpa_photo", ref, key, t, 0, NoFetch, <<>>,
                          200, "Absent", c[key].data, CtJpeg, FALSE, "none", FALSE) ]
     ELSE IF up.exc # "none"
     THEN [ cache |-> c1,
            call |-> Call("railway_get_kpa_photo", ref, key, t, requests_get(up).attempts, up, ck, 500,
                          "Absent", <<>>, None, FALSE, "Error fetching photo", FALSE) ]
     ELSE IF up.status = 200
     THEN [ cache |-> DictPut(c1, key, [data |-> up.body, time |-> t]),
            call |-> Call("railway_get_kpa_photo", ref, key, t, requests_get(up).attempts, up, ck, 200,
                          "Absent", up.body, HeaderOr(up.ctype, CtJpeg), FALSE,
                          "none", FALSE) ]
     ELSE [ cache |-> c1,
            call |-> Call("railway_get_kpa_photo", ref, key, t, requests_get(up).attempts, up, ck, 500,
                          "Absent", <<>>, None, FALSE, "Error fetching photo", FALSE) ]

\* max-age of the Cache-Control header of an answer, -1 when it has none:
\* kpa_photo sets the header on its HIT and its MISS response, get_kpa_photo
\* of kpa_photo_proxy_railway on the response of a fetch only
MaxAge(c) ==
  CASE c.handler = "kpa_photo" /\ c.status = 200 -> CACHE_TTL_SEC
    [] c.handler = "railway_get_kpa_photo" /\ c.status = 200 /\ c.fetches >= 1 -> 3600
    [] OTHER -> -1

\* ------------------------------------------------ railway_app.py (FastAPI)
\* get_kpa_photo(key): no cache; a 200 passes when its Content-Type contains
\* "image" or its body starts with the JPEG magic bytes
railway_app_get_kpa_photo(ref, key, up, g, t) ==
  LET ck == RailwayCookie(g)
      content_type == HeaderOr(up.ctype, <<>>)
  IN IF up.exc = "none" /\ up.status = 200
        /\ (Contains(content_type, ImageWord) \/ StartsWith(up.body, JpegMagic))
     THEN Call("railway_app_get_kpa_photo", ref, key, t, requests_get(up).attempts, up, ck, 200, "Absent",
               up.body, CtJpeg, FALSE, "none", FALSE)
     ELSE Call("railway_app_get_kpa_photo", ref, key, t, requests_get(up).attempts, up, ck, 500, "Absent",
               <<>>, None, FALSE, "Error fetching photo", FALSE)

\* --------------------------------------------------- simple_proxy.py (Flask)
NotKey_never(key) == FALSE

\* `not key` for key = request.args.get('key'): no parameter, or an empty one
NotKey(key) == key = None \/ key = <<>>

\* get_photo(): key is None when the request has no key parameter
get_photo(ref, key, up, g, t) ==
  LET ck == <<g.SESSION_COOKIE>>
  IN IF NotKey(key)
     THEN Call("get_photo", ref, key, t, 0, NoFetch, <<>>, 400, "Absent", <<>>,
               None, FALSE, "Missing key parameter", FALSE)
     ELSE IF up.exc # "none"
     THEN Call("get_photo", ref, key, t, requests_get(up).attempts, up, ck, 500, "Absent", <<>>, None,
               FALSE, "exception", FALSE)
     ELSE IF up.status = 200
     THEN Call("get_photo", ref, key, t, requests_get(up).attempts, up, ck, 200, "Absent", up.body,
               HeaderOr(up.ctype, CtJpeg), FALSE, "none", FALSE)
     ELSE Call("get_photo", ref, key, t, requests_get(up).attempts, up, ck, up.status, "Absent", <<>>,
               None, FALSE, "KPA returned", FALSE)

\* ------------------------------------------------ kpa_api_server.py (Flask)
\* proxy_kpa_photo(): reads the session cookie from the environment on every
\* request; the 200 body is streamed by a generator that runs after the
\* handler has returned, so a connection that breaks while the body is read
\* raises outside the handler's try blocks and the caller gets a cut body
proxy_kpa_photo(ref, photo_key, up, e, t) ==
  LET session_cookie == getenv(e, "KPA_SESSION_COOKIE", "")
      ck == <<session_cookie>>
  IN IF NotKey(photo_key)
     THEN Call("proxy_kpa_photo", ref, photo_key, t, 0, NoFetch, <<>>, 400,
               "Absent", <<>>, None, FALSE, "missing_parameter", FALSE)
     ELSE IF session_cookie = ""
     THEN Call("proxy_kpa_photo", ref, photo_key, t, 0, NoFetch, <<>>, 500,
               "Absent", <<>>, None, FALSE, "no_session", FALSE)
     ELSE IF up.exc = "timeout"
     THEN Call("proxy_kpa_photo", ref, photo_key, t, requests_get(up).attempts, up, ck, 408, "Absent",
               <<>>, None, FALSE, "photo_timeout", FALSE)
     ELSE IF up.exc = "conn"
     THEN Call("proxy_kpa_photo", ref, photo_key, t, requests_get(up).attempts, up, ck, 502, "Absent",
               <<>>, None, FALSE, "photo_request_failed", FALSE)
     ELSE IF up.status = 200
     THEN Call("proxy_kpa_photo", ref, photo_key, t, requests_get(up).attempts, up, ck, 200, "Absent",
               IF up.exc = "midbody" THEN <<>> ELSE up.body,
               HeaderOr(up.ctype, CtJpeg), FALSE, "none", up.exc = "midbody")
     ELSE Call("proxy_kpa_photo", ref, photo_key, t, requests_get(up).attempts, up, ck, up.status,
               "Absent", <<>>, None, FALSE, "photo_fetch_failed", FALSE)

\* ------------------------------------------------------------------ app.py
\* fetch_photo_directly, line 22: `not photo_url` is false for an int other
\* than 0 and for NaN, and `"get-upload" in photo_url` then raises TypeError,
\* outside the try block
ClientKeyRaises(photo_url) == photo_url \in {PyInt, PyNaN}

\* fetch_photo_directly: the raw text between the first "key=" and the next
\* "&", or None when the function returns without calling the proxy
ClientKey(photo_url) ==
  IF photo_url = <<>> \/ ~Contains(photo_url, GetUpload) THEN None
  ELSE IF Contains(photo_url, KeyEq)
       THEN SplitHead(SplitSecond(photo_url, KeyEq), Amp)
       ELSE None

\* ClientKey, and the key the server's framework decodes from it, for each
\* photo URL of the model
ClientKeyOf == [u \in PhotoUrls |-> ClientKey(u)]

QueryValueOf ==
  [u \in PhotoUrls |-> IF ClientKey(u) = None THEN None ELSE QueryValue(ClientKey(u))]

\* ------------------------------------------------ streamlit_csv_raffle.py
\* s.split(sep) for a one-character sep
RECURSIVE Split(_, _)
Split(s, sep) ==
  IF Contains(s, sep)
  THEN <<SplitHead(s, sep)>> \o Split(SubSeq(s, Find(s, sep) + 1, Len(s)), sep)
  ELSE <<s>>

\* urlparse(url).query: what follows the first "?", up to the fragment
UrlQuery(url) ==
  LET nofrag == SplitHead(url, <<"#">>)
  IN IF Contains(nofrag, <<"?">>)
     THEN SubSeq(nofrag, Find(nofrag, <<"?">>) + 1, Len(nofrag))
     ELSE <<>>

\* parse_qs(query)[name]: the fields are split at "&" and each at its first
\* "="; a field without "=" or with an empty value is dropped; name and
\* value have "+" turned into a space and are percent-decoded
parse_qs(query, name) ==
  LET fields == Split(query, Amp)
      Named(f) == /\ Contains(f, <<"=">>)
                  /\ QueryValue(SplitHead(f, <<"=">>)) = name
                  /\ Find(f, <<"=">>) < Len(f)
      ValueOf(f) == QueryValue(SubSeq(f, Find(f, <<"=">>) + 1, Len(f)))
      hits == SelectSeq(fields, Named)
  IN [i \in 1..Len(hits) |-> ValueOf(hits[i])]

\* extract_key_from_tenant_url: None, or the first key value of the query,
\* percent-decoded once more
extract_key_from_tenant_url(url) ==
  IF ~IsStr(url) \/ ~Contains(url, GetUpload) THEN None
  ELSE LET q == parse_qs(UrlQuery(url), <<"k","e","y">>)
       IN IF q = <<>> THEN None ELSE unquote(q[1])

\* -------------------------------------------------------------- the actions
\* what the running server does with GET /kpa-photo?key=<key>
Serve(ref, key, up) ==
  CASE server = "kpa_photo_proxy" ->
         LET r == kpa_photo(ref, key, up, _cache, globals, now)
         IN [p |-> r.cache, r |-> cache, call |-> r.call]
    [] server = "kpa_photo_proxy_railway" ->
         LET r == railway_get_kpa_photo(ref, key, up, cache, globals, now)
         IN [p |-> _cache, r |-> r.cache, call |-> r.call]
    [] server = "railway_app" ->
         [p |-> _cache, r |-> cache,
          call |-> railway_app_get_kpa_photo(ref, key, up, globals, now)]
    [] server = "simple_proxy" ->
         [p |-> _cache, r |-> cache, call |-> get_photo(ref, key, up, globals, now)]
    [] OTHER ->
         [p |-> _cache, r |-> cache, call |-> proxy_kpa_photo(ref, key, up, env, now)]

Done(r) ==
  /\ _cache' = r.p
  /\ cache' = r.r
  /\ last' = r.call
  /\ ncalls' = ncalls + 1
  /\ UNCHANGED <<server, env, globals, now, th, store, draw, rate_limit_state>>

\* GET /kpa-photo?key=<key> on kpa_photo_proxy
KpaPhoto ==
  /\ server = "kpa_photo_proxy"
  /\ ncalls < MaxCalls
  /\ \E key \in Keys, up \in Upstream : Done(Serve(key, key, up))

\* GET /kpa-photo?key=<key> on kpa_photo_proxy_railway
RailwayGetKpaPhoto ==
  /\ server = "kpa_photo_proxy_railway"
  /\ ncalls < MaxCalls
  /\ \E key \in Keys, up \in Upstream : Done(Serve(key, key, up))

\* GET /kpa-photo?key=<key> on railway_app
RailwayAppGetKpaPhoto ==
  /\ server = "railway_app"
  /\ ncalls < MaxCalls
  /\ \E key \in Keys, up \in Upstream : Done(Serve(key, key, up))

\* GET /kpa-photo[?key=<key>] on simple_proxy
GetPhoto ==
  /\ server = "simple_proxy"
  /\ ncalls < MaxCalls
  /\ \E key \in Keys \cup {None, <<>>}, up \in Upstream : Done(Serve(key, key, up))

\* GET /api/v1/photos/proxy[?key=<key>] on kpa_api_server
ProxyKpaPhoto ==
  /\ server = "kpa_api_server"
  /\ ncalls < MaxCalls
  /\ \E key \in Keys \cup {None, <<>>}, up \in Upstream : Done(Serve(key, key, up))

\* fetch_photo_directly(photo_url) of the Streamlit app, against a server
\* with a /kpa-photo route: the raw key goes into the proxy URL's query
\* string and the server's framework decodes it
FetchPhotoDirectly ==
  /\ server # "kpa_api_server"
  /\ ncalls < MaxCalls
  /\ \E photo_url \in PhotoUrls :
       IF ClientKeyOf[photo_url] = None
       THEN Done([p |-> _cache, r |-> cache,
                  call |-> Call("fetch_photo_directly", photo_url, None, now, 0,
                                NoFetch, <<>>, 0, "Absent", <<>>, None, FALSE,
                                "no request", FALSE)])
       ELSE \E up \in Upstream :
              Done(Serve(photo_url, QueryValueOf[photo_url], up))

Next ==
  \/ Tick
  \/ KpaPhoto
  \/ RailwayGetKpaPhoto
  \/ RailwayAppGetKpaPhoto
  \/ GetPhoto
  \/ ProxyKpaPhoto
  \/ FetchPhotoDirectly

Spec == Init /\ [][Next]_vars

\* ------------------------------------- kpa_photo_proxy.py, thread by thread
\* kpa_photo is a plain `def` route, which FastAPI runs on a pool of worker
\* threads; there is no lock around _cache.  Each dict operation is one
\* atomic step (_cache.get, _cache.pop, _cache[key] = ...), and a thread can
\* be preempted between any two of them.  A thread is at "idle" between
\* requests, at "evict" between the read of an expired entry and its pop, at
\* "fetch" before requests.get, and at "store" with the response in hand.

\* the upstream outcomes the threads draw from
UpstreamT ==
  { Resp(200, CtJpeg, JpegBody), Resp(200, CtHtml, HtmlBody),
    Resp(404, CtHtml, TextBody), Raised("timeout") }

At(i, pc, key, up) ==
  th' = [th EXCEPT ![i] = [pc |-> pc, key |-> key, up |-> up]]

Respond(i, call) ==
  /\ last' = call
  /\ th' = [th EXCEPT ![i] = Idle]

\* a request arrives; _cache_get as far as `item = _cache.get(key)` and the
\* comparison with time.time(): a fresh entry is answered at once
CacheRead(i) ==
  /\ server = "kpa_photo_proxy"
  /\ th[i].pc = "idle"
  /\ ncalls < MaxCalls
  /\ ncalls' = ncalls + 1
  /\ \E key \in Keys :
       IF key \notin DOMAIN _cache
       THEN At(i, "fetch", key, NoFetch) /\ UNCHANGED last
       ELSE IF now > _cache[key].exp
       THEN At(i, "evict", key, NoFetch) /\ UNCHANGED last
       ELSE Respond(i, kpa_photo(key, key, NoFetch, _cache, globals, now).call)
  /\ UNCHANGED <<server, env, globals, now, _cache, cache, store, draw, rate_limit_state>>

\* _cache_get, the rest: `_cache.pop(key, None)` of the entry found expired
CacheEvict(i) ==
  /\ th[i].pc = "evict"
  /\ _cache' = DictDel(_cache, th[i].key)
  /\ At(i, "fetch", th[i].key, NoFetch)
  /\ UNCHANGED <<server, env, globals, now, cache, ncalls, last, store, draw, rate_limit_state>>

\* requests.get(...): an error is answered at once, a response is kept
Fetch(i) ==
  /\ th[i].pc = "fetch"
  /\ \E up \in UpstreamT :
       LET r == kpa_photo_fetch(th[i].key, th[i].key, up, _cache, globals, now)
       IN IF r.call.status = 200
          THEN At(i, "store", th[i].key, up) /\ UNCHANGED last
          ELSE Respond(i, r.call)
  /\ UNCHANGED <<server, env, globals, now, _cache, cache, ncalls, store, draw, rate_limit_state>>

\* _cache_put(key, r.content, mime) and the 200 response
Store(i) ==
  /\ th[i].pc = "store"
  /\ LET r == kpa_photo_fetch(th[i].key, th[i].key, th[i].up, _cache, globals, now)
     IN _cache' = r.cache /\ Respond(i, r.call)
  /\ UNCHANGED <<server, env, globals, now, cache, ncalls, store, draw, rate_limit_state>>

\* the credentials play no part in the cache steps: one configuration
InitThreads ==
  /\ Init
  /\ server = "kpa_photo_proxy"
  /\ env = EnvAllSet

NextThreads ==
  \/ Tick
  \/ \E i \in Threads : CacheRead(i)
  \/ \E i \in Threads : CacheEvict(i)
  \/ \E i \in Threads : Fetch(i)
  \/ \E i \in Threads : Store(i)

SpecThreads == InitThreads /\ [][NextThreads]_vars

\* ------------------------------------------------- credentials over time
\* kpa_photo_proxy binds KPA_COOKIE and KPA_BEARER_TOKEN to module globals
\* when it is imported; kpa_api_server calls os.getenv in every request, on
\* the process environment that load_dotenv('secrets/.env') filled at import.
\* No handler writes either, so a request is one step here.

\* the credentials a refresher puts in place of the configured ones
EnvRotated == [n \in EnvNames |-> "w"]

\* a refresher outside the process replaces the configured credentials (it
\* rewrites secrets/.env, or the variables of the hosting platform)
Refresh ==
  /\ store # EnvRotated
  /\ store' = EnvRotated
  /\ UNCHANGED <<server, env, globals, now, _cache, cache, ncalls, last, th, draw, rate_limit_state>>

\* the process is restarted: the module is imported again, which reads the
\* configured credentials and starts with empty caches
Restart ==
  /\ env # store
  /\ env' = store
  /\ globals' = ImportGlobals(store)
  /\ _cache' = EmptyDict
  /\ cache' = EmptyDict
  /\ th' = [i \in Threads |-> Idle]
  /\ UNCHANGED <<server, now, ncalls, last, store, draw, rate_limit_state>>

InitRotate ==
  /\ Init
  /\ server \in {"kpa_photo_proxy", "kpa_api_server"}

NextRotate ==
  \/ Tick
  \/ KpaPhoto
  \/ ProxyKpaPhoto
  \/ Refresh
  \/ Restart

SpecRotate == InitRotate /\ [][NextRotate]_vars

\* ------------------------------------------------------ the key extractors
\* one reference is drawn, and one of the two extractors is applied to it;
\* last.ref is the reference, last.key the key extracted from it
Extracted(h, ref, key, err) ==
  Call(h, ref, key, 0, 0, NoFetch, <<>>, 0, "Absent", <<>>, None, FALSE, err, FALSE)

InitKey ==
  /\ server = "none"
  /\ Started(EnvAllUnset) /\ store = EnvAllUnset
  /\ draw = NoDraw
  /\ rate_limit_state = [requests |-> <<>>, blocked_until |-> 0]
  /\ now = 0
  /\ ncalls = 0
  /\ \E ref \in Refs : last = Extracted("none", ref, None, "none")

\* key = extract_key_from_tenant_url(photo_field)
ExtractKeyFromTenantUrl ==
  /\ last.handler = "none"
  /\ last' = Extracted("extract_key_from_tenant_url", last.ref,
                       extract_key_from_tenant_url(last.ref), "none")
  /\ UNCHANGED <<server, env, globals, now, _cache, cache, ncalls, th, store, draw, rate_limit_state>>

\* fetch_photo_directly(photo_url), as far as the key it asks the proxy for
FetchPhotoDirectlyKey ==
  /\ last.handler = "none"
  /\ last' = IF ClientKeyRaises(last.ref)
             THEN Extracted("fetch_photo_directly", last.ref, None, "TypeError")
             ELSE Extracted("fetch_photo_directly", last.ref, ClientKey(last.ref), "none")
  /\ UNCHANGED <<server, env, globals, now, _cache, cache, ncalls, th, store, draw, rate_limit_state>>

NextKey ==
  \/ ExtractKeyFromTenantUrl
  \/ FetchPhotoDirectlyKey

SpecKey == InitKey /\ [][NextKey]_vars

\* ------------------------------- kpa_api_server.py: the KPA rate limiter
\* make_kpa_request runs on the worker threads of the Flask server.  Its
\* accesses to rate_limit_state are check_rate_limit, record_api_request
\* and handle_kpa_rate_limit_error, each under the lock and each one step;
\* the thread can be preempted between them.  blocked_until is 0 for None.

\* what requests.request to the KPA API can come back with
UpstreamK ==
  { Resp(200, None, <<>>), Resp(401, None, <<>>), Resp(429, None, <<>>),
    Raised("conn") }

\* the requests of the list that are inside the window at time t
InWindow(requests, t) ==
  LET Recent(req_time) == req_time > t - KPA_RATE_LIMIT_WINDOW
  IN SelectSeq(requests, Recent)

check_rate_limit_unblocked(rls, t) ==
  LET cleaned == [rls EXCEPT !.requests = InWindow(rls.requests, t)]
  IN IF Len(cleaned.requests) >= KPA_RATE_LIMIT_PER_MINUTE
     THEN [allowed |-> FALSE, wait_time |-> KPA_RATE_LIMIT_WINDOW, state |-> cleaned]
     ELSE [allowed |-> TRUE, wait_time |-> 0, state |-> cleaned]

\* check_rate_limit(): allowed, wait_time, and rate_limit_state afterwards
check_rate_limit(rls, t) ==
  IF rls.blocked_until # 0 /\ t < rls.blocked_until
  THEN [allowed |-> FALSE, wait_time |-> rls.blocked_until - t, state |-> rls]
  ELSE LET cleaned == [rls EXCEPT !.requests = InWindow(rls.requests, t)]
       IN IF Len(cleaned.requests) >= KPA_RATE_LIMIT_PER_MINUTE
          THEN [allowed |-> FALSE, wait_time |-> KPA_RATE_LIMIT_WINDOW,
                state |-> cleaned]
          ELSE [allowed |-> TRUE, wait_time |-> 0, state |-> cleaned]

\* record_api_request()
record_api_request(rls, t) == [rls EXCEPT !.requests = Append(@, t)]

\* handle_kpa_rate_limit_error()
handle_kpa_rate_limit_error(rls, t) == [rls EXCEPT !.blocked_until = t + 60]

\* what make_kpa_request returns: the status, the error, and whether a
\* request went upstream
Returned(status, err, up) ==
  Call("make_kpa_request", <<>>, None, now, IF up = NoFetch THEN 0 ELSE 1, up,
       <<>>, status, "Absent", <<>>, None, FALSE, err, FALSE)

\* make_kpa_request, lines 115-123: the admission check
CheckRateLimit(i) ==
  /\ server = "kpa_api_server"
  /\ th[i].pc = "idle"
  /\ ncalls < MaxCalls
  /\ ncalls' = ncalls + 1
  /\ LET r == check_rate_limit(rate_limit_state, now)
     IN /\ rate_limit_state' = r.state
        /\ IF r.allowed
           THEN At(i, "record", None, NoFetch) /\ UNCHANGED last
           ELSE Respond(i, Returned(429, "rate_limit_exceeded", NoFetch))
  /\ UNCHANGED <<server, env, globals, now, _cache, cache, store, draw>>

\* make_kpa_request, line 126: record_api_request()
RecordApiRequest(i) ==
  /\ th[i].pc = "record"
  /\ rate_limit_state' = record_api_request(rate_limit_state, now)
  /\ At(i, "send", None, NoFetch)
  /\ UNCHANGED <<server, env, globals, now, _cache, cache, ncalls, last, store,
                 draw>>

\* make_kpa_request, lines 128-175: without a token it returns 401 at once;
\* else the request is sent, and its answer returned, a 429 after
\* handle_kpa_rate_limit_error
SendKpaRequest(i) ==
  /\ th[i].pc = "send"
  /\ IF globals.KPA_API_TOKEN = ""
     THEN Respond(i, Returned(401, "no_authentication", NoFetch))
     ELSE \E up \in UpstreamK :
            IF up.exc # "none" THEN Respond(i, Returned(500, "kpa_api_error", up))
            ELSE IF up.status = 429
                 THEN At(i, "handle", None, up) /\ UNCHANGED last
            ELSE IF up.status = 401
                 THEN Respond(i, Returned(401, "authentication_failed", up))
            ELSE Respond(i, Returned(up.status, "none", up))
  /\ UNCHANGED <<server, env, globals, now, _cache, cache, ncalls, store, draw,
                 rate_limit_state>>

\* make_kpa_request, lines 157-163: the upstream's 429
HandleRateLimitError(i) ==
  /\ th[i].pc = "handle"
  /\ rate_limit_state' = handle_kpa_rate_limit_error(rate_limit_state, now)
  /\ Respond(i, Returned(429, "rate_limit_exceeded", th[i].up))
  /\ UNCHANGED <<server, env, globals, now, _cache, cache, ncalls, store, draw>>

\* the clock moves on by a second, or by a whole window
TickRate ==
  /\ \E d \in {1, KPA_RATE_LIMIT_WINDOW} :
       /\ d = 1 => (now % KPA_RATE_LIMIT_WINDOW) < MaxSkew
       /\ now + d <= MaxEpochs * KPA_RATE_LIMIT_WINDOW + MaxSkew
       /\ now' = now + d
  /\ UNCHANGED <<server, env, globals, _cache, cache, ncalls, last, th, store,
                 draw, rate_limit_state>>

InitRate ==
  /\ Init
  /\ server = "kpa_api_server"

NextRate ==
  \/ TickRate
  \/ \E i \in Threads : CheckRateLimit(i)
  \/ \E i \in Threads : RecordApiRequest(i)
  \/ \E i \in Threads : SendKpaRequest(i)
  \/ \E i \in Threads : HandleRateLimitError(i)

SpecRate == InitRate /\ [][NextRate]_vars

\* ------------------------------------ app.py and safety_checker.py: a draw
\* what the employee search can come back with: a match with an id, a match
\* without one, or None (no match, an HTTP error or an exception)
SearchAnswers == {"found", "noid", "none"}

\* what GET /api/incidents can come back with: 200 and n incidents, another
\* status, or an exception
ViolationAnswers ==
  {[kind |-> "ok", n |-> n] : n \in 0..MaxViolations}
    \cup {[kind |-> "http", n |-> 0], [kind |-> "exc", n |-> 0]}

\* KPASafetyChecker.check_safety_violations: has_count says whether the
\* result has a violations_found entry
check_safety_violations(viol) ==
  IF viol.kind = "ok"
  THEN [ has_count |-> TRUE, violations_found |-> viol.n,
         is_eligible |-> IF viol.n = 0 THEN "True" ELSE "False" ]
  ELSE [ has_count |-> FALSE, violations_found |-> 0, is_eligible |-> "None" ]

\* KPASafetyChecker.check_winner_eligibility: violations_found is read with
\* .get(..., 0), is_eligible with .get(..., False) from an entry that is
\* None after a failed lookup
check_winner_eligibility(search, viol) ==
  IF search = "none"
  THEN [ found_in_kpa |-> FALSE, violations_found |-> 0, is_eligible |-> "False",
         reason |-> "Employee not found in KPA system", lookup |-> "notrun" ]
  ELSE IF search = "noid"
  THEN [ found_in_kpa |-> TRUE, violations_found |-> 0, is_eligible |-> "False",
         reason |-> "Employee ID not available", lookup |-> "notrun" ]
  ELSE LET violation_check == check_safety_violations(viol)
       IN [ found_in_kpa |-> TRUE,
            violations_found |-> violation_check.violations_found,
            is_eligible |-> violation_check.is_eligible,
            reason |-> IF violation_check.violations_found > 0
                       THEN "Safety violations found"
                       ELSE "No safety violations - eligible",
            lookup |-> viol.kind ]

safety_eligible_always(safety_result) == TRUE

\* main, lines 895-898: the winner is not eligible when the result says
\* found_in_kpa and counts violations
safety_eligible(safety_result) ==
  ~(safety_result.found_in_kpa /\ safety_result.violations_found > 0)

\* main, lines 895-912: the message shown for a result
safety_message(safety_result) ==
  IF safety_result.found_in_kpa
  THEN IF safety_result.violations_found > 0 THEN "Safety Check Failed"
       ELSE "Safety Check Passed"
  ELSE "not found in KPA system"

\* "Random Selection": a winner is drawn, with the sidebar's settings and the
\* winner's photo field
DrawWinner ==
  /\ draw.pc \in {"none", "done"}
  /\ ncalls < MaxCalls
  /\ ncalls' = ncalls + 1
  /\ \E usc \in BOOLEAN, up \in BOOLEAN, pf \in {<<>>, UrlA} :
       draw' = [NoDraw EXCEPT !.pc = "drawn", !.use_safety_check = usc,
                              !.use_proxy = up, !.photo_field = pf]
  /\ UNCHANGED <<server, env, globals, now, _cache, cache, last, th, store,
                 rate_limit_state>>

\* main, lines 885-917: the safety check, when it is enabled; an exception
\* of the checker ends in "Proceeding without safety check due to error"
SafetyCheck ==
  /\ draw.pc = "drawn"
  /\ IF ~draw.use_safety_check
     THEN draw' = [draw EXCEPT !.pc = "checked"]
     ELSE \/ draw' = [draw EXCEPT !.pc = "checked", !.lookup = "raised",
                                  !.safety_message = "Safety Check Error"]
          \/ \E search \in SearchAnswers, viol \in ViolationAnswers :
               LET safety_result == check_winner_eligibility(search, viol)
               IN draw' = [draw EXCEPT
                             !.pc = "checked",
                             !.lookup = safety_result.lookup,
                             !.violations = safety_result.violations_found,
                             !.found_in_kpa = safety_result.found_in_kpa,
                             !.is_eligible = safety_result.is_eligible,
                             !.reason = safety_result.reason,
                             !.safety_eligible = safety_eligible(safety_result),
                             !.safety_message = safety_message(safety_result)]
  /\ UNCHANGED <<server, env, globals, now, _cache, cache, ncalls, last, th,
                 store, rate_limit_state>>

\* main, lines 919-967: the safety metric, then photo and card for an
\* eligible winner; the photo is asked for only with the proxy enabled and a
\* photo field
PhotoAndCard ==
  /\ draw.pc = "checked"
  /\ draw' = [draw EXCEPT
                !.pc = "done",
                !.safety_status = IF ~draw.use_safety_check THEN "SKIPPED"
                                  ELSE IF draw.safety_eligible THEN "ELIGIBLE"
                                  ELSE "NOT ELIGIBLE",
                !.photo_requested = draw.safety_eligible /\ draw.use_proxy
                                      /\ draw.photo_field # <<>>,
                !.card = draw.safety_eligible]
  /\ UNCHANGED <<server, env, globals, now, _cache, cache, ncalls, last, th,
                 store, rate_limit_state>>

InitRaffle ==
  /\ server = "none"
  /\ Started(EnvAllUnset) /\ store = EnvAllUnset
  /\ now = 0
  /\ ncalls = 0
  /\ last = NoCall
  /\ draw = NoDraw
  /\ rate_limit_state = [requests |-> <<>>, blocked_until |-> 0]

NextRaffle ==
  \/ DrawWinner
  \/ SafetyCheck
  \/ PhotoAndCard

SpecRaffle == InitRaffle /\ [][NextRaffle]_vars

\* ============================================================ the claims
\* The specification's vocabulary, for stating the claims.

PngMagic == <<137, 80, 78, 71>>
GifMagic == <<71, 73, 70, 56>>
RiffMagic == <<82, 73, 70, 70>>
WebpMagic == <<87, 69, 66, 80>>

HasImageSignature(b) ==
  \/ StartsWith(b, JpegMagic)
  \/ StartsWith(b, PngMagic)
  \/ StartsWith(b, GifMagic)
  \/ (StartsWith(b, RiffMagic) /\ Len(b) >= 12 /\ SubSeq(b, 9, 12) = WebpMagic)

\* the outcome the specification gives one upstream fetch
Outcome(up) ==
  IF up.exc # "none" THEN "Transient"
  ELSE IF up.status = 404 THEN "NotFound"
  ELSE IF up.status \in {401, 403}
          \/ (up.status = 200 /\ StartsWith(up.body, HtmlMarker)) THEN "AuthExpired"
  ELSE IF up.status = 429 THEN "RateLimited"
  ELSE IF up.status = 200 /\ HasImageSignature(up.body) THEN "Success"
  ELSE "Transient"

\* the typed error the inbound interface assigns to a rejection's status
TypedError(c) ==
  CASE c.status = 400 -> "NoKeyFound"
    [] c.status \in {401, 403} -> "Auth"
    [] c.status = 404 -> "NotFound"
    [] c.status = 429 -> "RateLimited"
    [] c.status = 502 -> "UpstreamUnavailable"
    [] OTHER -> "untyped"

\* this step is one serve call
CallStep == ncalls' = ncalls + 1

\* the call fetched upstream
Fetched(c) == c.fetches >= 1

\* the step wrote (created or changed) the cache entry of key k
Wrote(k) ==
  \/ k \in DOMAIN _cache' /\ (k \notin DOMAIN _cache \/ _cache'[k] # _cache[k])
  \/ k \in DOMAIN cache' /\ (k \notin DOMAIN cache \/ cache'[k] # cache[k])

CachingServers == {"kpa_photo_proxy", "kpa_photo_proxy_railway"}

\* C1: when the upstream answers 200 with a body that starts with <html,
\* the caller gets an AuthExpired rejection (401/403), not the body, and the
\* cache holds no entry for the key that contains the body.
C1_HtmlIsAuthExpired ==
  (Fetched(last) /\ last.up.exc = "none" /\ last.up.status = 200
     /\ StartsWith(last.up.body, HtmlMarker))
  => /\ last.status \in {401, 403}
     /\ last.body # last.up.body
     /\ last.key \in DOMAIN _cache => _cache[last.key].data # last.up.body
     /\ last.key \in DOMAIN cache => cache[last.key].data # last.up.body

\* C2: on the caching proxies, a call for the same reference made within the
\* TTL window after a call that ended in Success makes no upstream request
\* and reports X-Cache: HIT, so the two calls make one fetch in total.
C2_SecondCallIsHit ==
  [][ (CallStep /\ server \in CachingServers
         /\ Fetched(last) /\ Outcome(last.up) = "Success" /\ last.status = 200
         /\ last'.ref = last.ref /\ now <= last.t + CACHE_TTL)
      => (last'.fetches = 0 /\ last.fetches + last'.fetches = 1
            /\ last'.status = 200 /\ last'.xcache = "HIT") ]_vars

\* C3: a cache entry is created or changed only by a serve call for that key
\* whose upstream fetch has outcome Success.
C3_OnlySuccessIsCached ==
  [][ \A k \in DOMAIN _cache' \cup DOMAIN cache' :
        Wrote(k) => (CallStep /\ last'.key = k /\ Fetched(last')
                       /\ Outcome(last'.up) = "Success") ]_vars

\* the time the entry of key k expires, on the running caching proxy
ExpiresAt(k) ==
  IF server = "kpa_photo_proxy" THEN _cache[k].exp ELSE cache[k].time + CACHE_TTL

Cached(k) ==
  IF server = "kpa_photo_proxy" THEN k \in DOMAIN _cache ELSE k \in DOMAIN cache

\* C4: a call that reads an entry one second after its expiry treats it as
\* absent: the entry is gone (or replaced by what this call stored), the
\* call fetches upstream and, when it answers 200, reports MISS, never HIT.
C4_ExpiredEntryIsMiss ==
  [][ (CallStep /\ server \in CachingServers /\ Cached(last'.key)
         /\ now = ExpiresAt(last'.key) + 1)
      => /\ last'.fetches = 1
         /\ last'.xcache # "HIT"
         /\ last'.status = 200 => last'.xcache = "MISS"
         /\ ~Wrote(last'.key) => (last'.key \notin DOMAIN _cache'
                                    /\ last'.key \notin DOMAIN cache') ]_vars

\* the running server has no usable session cookie configured
NoCookies ==
  CASE server = "kpa_photo_proxy" -> globals.KPA_COOKIE = ""
    [] server = "kpa_api_server" -> getenv(env, "KPA_SESSION_COOKIE", "") = ""
    [] server = "simple_proxy" -> globals.SESSION_COOKIE = ""
    [] OTHER -> globals.KPA_SESSION_COOKIE = "" \/ globals.KPA_SUBDOMAIN_COOKIE = ""

\* C5: with no session cookies configured, a serve call that does not hit
\* the cache is rejected as AuthNotConfigured and makes no upstream request.
C5_NoCookiesNoFetch ==
  (server \in {"kpa_photo_proxy", "kpa_api_server"} /\ NoCookies
     /\ last.handler \in {"kpa_photo", "proxy_kpa_photo"}
     /\ last.key # None /\ last.xcache # "HIT")
  => /\ last.fetches = 0
     /\ last.status \in {401, 403} \/ last.error = "no_session"

\* C6: when the upstream answers 404, the caller gets 404, the cache has no
\* entry for the key afterwards and the call leaves the cache as it was.
C6_NotFoundLeavesCache ==
  [][ (CallStep /\ server \in CachingServers /\ Fetched(last')
         /\ last'.up.exc = "none" /\ last'.up.status = 404)
      => /\ last'.status = 404
         /\ last'.key \notin DOMAIN _cache' /\ last'.key \notin DOMAIN cache'
         /\ _cache' = _cache /\ cache' = cache ]_vars

\* C7: when the upstream answers 429, the caller gets 429 with Retry-After,
\* the call made that one upstream request only, and wrote no cache entry.
C7_RateLimitedPassedOn ==
  [][ (CallStep /\ server \in CachingServers /\ Fetched(last')
         /\ last'.up.exc = "none" /\ last'.up.status = 429)
      => /\ last'.status = 429 /\ last'.retryAfter
         /\ last'.fetches = 1
         /\ \A k \in DOMAIN _cache' \cup DOMAIN cache' : ~Wrote(k) ]_vars

\* C8: from an empty cache, fetch_photo_directly of
\* https://t/get-upload?key=abc%2Fdef.jpg against kpa_photo_proxy, with the
\* upstream answering 200 and JPEG bytes, gets 200, X-Cache: MISS and the
\* upstream bytes, and the cache then holds one entry, under abc/def.jpg.
C8_ScenarioA ==
  [][ (CallStep /\ server = "kpa_photo_proxy" /\ _cache = EmptyDict
         /\ last'.ref = UrlA /\ last'.up = Resp(200, CtJpeg, JpegBody))
      => /\ last'.status = 200 /\ last'.xcache = "MISS"
         /\ last'.body = JpegBody
         /\ DOMAIN _cache' = {KeyDec}
         /\ _cache'[KeyDec].data = JpegBody ]_vars

C8_Witness ==
  /\ server = "kpa_photo_proxy" /\ ncalls = 1
  /\ last.ref = UrlA /\ last.up = Resp(200, CtJpeg, JpegBody)
  /\ last.xcache = "MISS" /\ DOMAIN _cache = {KeyDec}

\* C9: every serve call of kpa_photo and proxy_kpa_photo ends in one
\* terminal state: a 200 answer, or a rejection whose status is one of the
\* typed errors; a fetch that raised (network error, timeout) is rejected as
\* UpstreamUnavailable, and no exception leaves the handler.
C9_TypedTerminalState ==
  last.handler \in {"kpa_photo", "proxy_kpa_photo"}
  => /\ last.status = 200 \/ TypedError(last) # "untyped"
     /\ (Fetched(last) /\ last.up.exc # "none")
          => (last.status # 200 /\ TypedError(last) = "UpstreamUnavailable")
     /\ ~last.escaped

\* C10: a serve call makes at most one upstream fetch attempt, whatever the
\* attempt's outcome.
C10_AtMostOneFetch ==
  last.fetches <= 1

C10_Witness ==
  /\ last.fetches = 1
  /\ last.up.exc = "timeout"
  /\ last.status # 200

\* thread i's step is its _cache_put and 200 response
StoreStep(i) == th[i].pc = "store" /\ th'[i].pc = "idle"

\* thread j's step is an operation on _cache: the read, the pop or the put
CacheOpBy(j) ==
  /\ th[j].pc \in {"idle", "evict", "store"}
  /\ th'[j] # th[j] \/ ncalls' # ncalls

\* C11: when calls of kpa_photo for one key run at the same time and all miss
\* the cache, each may fetch and each may store: a put overwrites whatever
\* entry is there, so the cache holds one entry for the key, that of the put
\* that ran last (and, once the last call has finished, of that call), and
\* each caller gets the bytes of its own fetch.
C11_LastPutWins ==
  [][ \A i \in Threads :
        StoreStep(i)
        => LET k == th[i].key
           IN /\ DOMAIN _cache' = DOMAIN _cache \cup {k}
              /\ _cache'[k] = [exp |-> now + CACHE_TTL_SEC, data |-> th[i].up.body,
                               mime |-> HeaderOr(th[i].up.ctype, CtJpeg)]
              /\ \A x \in DOMAIN _cache \ {k} : _cache'[x] = _cache[x]
              /\ last'.status = 200 /\ last'.xcache = "MISS"
              /\ last'.key = k /\ last'.body = th[i].up.body ]_vars

\* a thread holds its own response while the cache already holds the entry
\* another thread has stored for the same key since this thread's miss
C11_Witness ==
  \E i \in Threads :
    /\ th[i].pc = "store"
    /\ th[i].key \in DOMAIN _cache
    /\ _cache[th[i].key].data # th[i].up.body
    /\ last.xcache = "MISS" /\ last.key = th[i].key

\* C12: the cache operations of kpa_photo_proxy are atomic with respect to
\* each other: while one thread is inside _cache_get (it has read the entry
\* and has not yet popped it), no other thread operates on _cache.
C12_CacheOpsAtomic ==
  [][ \A i, j \in Threads :
        (i # j /\ th[i].pc = "evict") => ~CacheOpBy(j) ]_vars

\* the Cookie header a request sends when it uses the configured credentials
ConfiguredCookie ==
  IF server = "kpa_photo_proxy"
  THEN _auth_headers(ImportGlobals(store)).Cookie
  ELSE <<getenv(store, "KPA_SESSION_COOKIE", "")>>

\* C13: a request of kpa_photo_proxy or kpa_api_server changes neither the
\* configured credentials nor the ones the process holds, and a request that
\* starts after a refresher has replaced the configured credentials sends
\* the replaced ones upstream.
C13_RotationSeenByNextRequest ==
  [][ CallStep
      => /\ store' = store /\ env' = env /\ globals' = globals
         /\ Fetched(last') => last'.cookie = ConfiguredCookie ]_vars

\* the reference has the upload indicator and a query parameter named key
KeyParams(ref) ==
  LET fields == Split(UrlQuery(ref), Amp)
      IsKey(f) == StartsWith(f, KeyEq)
  IN SelectSeq(fields, IsKey)

CarriesKey(ref) ==
  IsStr(ref) /\ Contains(ref, GetUpload) /\ KeyParams(ref) # <<>>

\* the percent-encoded value K of the reference's first key= parameter
FirstKeyRaw(ref) == SubSeq(KeyParams(ref)[1], Len(KeyEq) + 1, Len(KeyParams(ref)[1]))

\* the key an extraction ends with: fetch_photo_directly puts the raw text
\* into the proxy URL, and the proxy's framework decodes that query value
ExtractedKey(c) ==
  IF c.handler = "fetch_photo_directly" /\ c.key # None
  THEN QueryValue(c.key)
  ELSE c.key

ExtractorRan == last.handler \in {"extract_key_from_tenant_url", "fetch_photo_directly"}

\* C14: for a reference with a key= query parameter whose percent-encoded
\* value is K, the extracted key is K percent-decoded (once).
C14_KeyIsPercentDecoded ==
  (ExtractorRan /\ CarriesKey(last.ref) /\ FirstKeyRaw(last.ref) # <<>>)
  => (last.error = "none" /\ ExtractedKey(last) = unquote(FirstKeyRaw(last.ref)))

\* the text looks like a URL
LooksLikeUrl(s) ==
  Contains(s, <<":","/","/">>) \/ Contains(s, <<"?">>) \/ Contains(s, GetUpload)

\* C15: for a non-empty text that does not look like a URL, the extracted
\* key is the text itself.
C15_BareKeyUnchanged ==
  (ExtractorRan /\ IsStr(last.ref) /\ last.ref # <<>> /\ ~LooksLikeUrl(last.ref))
  => (last.error = "none" /\ last.key = last.ref)

\* no "%" and no "+": percent-decoding leaves the text as it is
IsPlain(s) == ~Contains(s, <<"%">>) /\ ~Contains(s, <<"+">>)

\* C16: the extractors never raise: an empty, non-text or malformed reference
\* gives None; and of several key= parameters the first one's value is the
\* result.
C16_NeverRaisesFirstKeyWins ==
  ExtractorRan
  => /\ last.error = "none"
     /\ (~IsStr(last.ref) \/ last.ref = <<>>) => last.key = None
     /\ (CarriesKey(last.ref) /\ FirstKeyRaw(last.ref) # <<>>
           /\ IsPlain(FirstKeyRaw(last.ref)))
        => ExtractedKey(last) = FirstKeyRaw(last.ref)

\* C17: a call of get_photo (simple_proxy) or proxy_kpa_photo
\* (kpa_api_server) with no key parameter, or an empty one, is answered 400
\* without an upstream request, and the caches are as before.
C17_NoKeyIs400 ==
  [][ (CallStep /\ last'.handler \in {"get_photo", "proxy_kpa_photo"}
         /\ last'.key \in {None, <<>>})
      => /\ last'.status = 400
         /\ ~Fetched(last')
         /\ _cache' = _cache /\ cache' = cache ]_vars

C17_Witness ==
  /\ last.handler \in {"get_photo", "proxy_kpa_photo"}
  /\ last.key = <<>>
  /\ last.status = 400 /\ last.fetches = 0

\* the call was answered from the cache
ServedFromCache(c) == c.fetches = 0 /\ c.status = 200

\* C18: get_kpa_photo (kpa_photo_proxy_railway) and proxy_kpa_photo
\* (kpa_api_server) answer each typed outcome with its one status: no key
\* 400; no credentials configured 401 or 403; and for a fetch, NotFound 404,
\* AuthExpired 401 or 403, RateLimited 429 with Retry-After, an unavailable
\* upstream 502, Success 200.
C18_StatusByOutcome ==
  last.handler \in {"railway_get_kpa_photo", "proxy_kpa_photo"}
  => /\ last.key \in {None, <<>>} => last.status = 400
     /\ (last.key \notin {None, <<>>} /\ NoCookies /\ ~ServedFromCache(last))
          => last.status \in {401, 403}
     /\ (Fetched(last) /\ ~NoCookies)
          => CASE Outcome(last.up) = "NotFound" -> last.status = 404
               [] Outcome(last.up) = "AuthExpired" -> last.status \in {401, 403}
               [] Outcome(last.up) = "RateLimited" ->
                    last.status = 429 /\ last.retryAfter
               [] Outcome(last.up) = "Success" -> last.status = 200
               [] OTHER -> last.status = 502

\* C19: get_kpa_photo (railway_app) and get_photo (simple_proxy) answer 200
\* with a body only when the upstream status was 200 and the body starts
\* with a JPEG, PNG, GIF or WebP signature, whatever the Content-Type says.
C19_SuccessNeedsImageBytes ==
  (last.handler \in {"railway_app_get_kpa_photo", "get_photo"}
     /\ last.status = 200)
  => /\ last.up.exc = "none" /\ last.up.status = 200
     /\ HasImageSignature(last.up.body)
     /\ HasImageSignature(last.body)

\* the outcome a caller reads off the answer's status
Observed(c) ==
  CASE c.status = 200 -> "Success"
    [] c.status = 404 -> "NotFound"
    [] c.status \in {401, 403} -> "AuthExpired"
    [] c.status = 429 -> "RateLimited"
    [] OTHER -> "Transient"

\* C20: kpa_photo (kpa_photo_proxy) and get_kpa_photo (railway_app) put
\* every upstream response, or exception, in exactly one class, by the
\* fixed priority NotFound, AuthExpired, RateLimited, Success, Transient.
C20_ClassificationByPriority ==
  (last.handler \in {"kpa_photo", "railway_app_get_kpa_photo"} /\ Fetched(last))
  => Observed(last) = Outcome(last.up)

C22_HitUntilExpiresAt ==
  [][ (CallStep /\ server \in CachingServers)
      => /\ Cached(last'.key)
            => ((now <= ExpiresAt(last'.key)) <=> ServedFromCache(last'))
         /\ (last'.key \in DOMAIN _cache' /\ Wrote(last'.key))
            => _cache'[last'.key].exp = now + CACHE_TTL_SEC ]_vars

\* the TTL of the running caching proxy
TTL == IF server = "kpa_photo_proxy" THEN CACHE_TTL_SEC ELSE CACHE_TTL

\* C23: on both caching proxies, a call answered from the entry that the
\* call before it fetched and stored returns the same bytes with the same
\* Content-Type, and both answers carry Cache-Control max-age = TTL and an
\* X-Cache header (MISS, then HIT).
C23_HitRepeatsTheMiss ==
  [][ (CallStep /\ server \in CachingServers
         /\ Fetched(last) /\ last.status = 200 /\ last'.key = last.key
         /\ ServedFromCache(last'))
      => /\ last'.body = last.body /\ last'.mime = last.mime
         /\ MaxAge(last) = TTL /\ MaxAge(last') = TTL
         /\ last.xcache = "MISS" /\ last'.xcache = "HIT" ]_vars

\* the call's key has an unexpired entry in kpa_photo_proxy's cache
FreshEntry(k) ==
  server = "kpa_photo_proxy" /\ k \in DOMAIN _cache /\ now <= _cache[k].exp

\* C24: a call of kpa_photo or proxy_kpa_photo goes through key, cache,
\* credentials, fetch, store in that order: an unexpired entry is served as
\* HIT whatever the credentials are; a fetch is made only for a non-empty
\* key without an unexpired entry and with the credentials configured; and
\* the cache is written only by a call that fetched.
C24_StepsInOrder ==
  [][ (CallStep /\ last'.handler \in {"kpa_photo", "proxy_kpa_photo"})
      => /\ FreshEntry(last'.key)
            => (last'.xcache = "HIT" /\ ~Fetched(last'))
         /\ Fetched(last')
            => (last'.key \notin {None, <<>>} /\ ~FreshEntry(last'.key)
                  /\ ~NoCookies)
         /\ Wrote(last'.key) => Fetched(last') ]_vars

C30_PassedOnlyWhenLookedUp ==
  (draw.use_safety_check /\ draw.pc \in {"checked", "done"})
  => /\ (draw.safety_status = "ELIGIBLE" \/ draw.card \/ draw.photo_requested
           \/ draw.safety_message = "Safety Check Passed")
          => (draw.lookup = "ok" /\ draw.violations = 0)
     /\ draw.lookup \in {"http", "exc"}
          => draw.reason # "No safety violations - eligible"
     /\ (draw.is_eligible = "True") <=> (draw.lookup = "ok" /\ draw.violations = 0)


\* --------------------------------------------- claims on the rate limiter
\* a thread takes the admission check of make_kpa_request
AdmissionStep == ncalls' = ncalls + 1
\* and goes on to record_api_request, or returns at once
Admitted == \E i \in Threads : th[i].pc = "idle" /\ th'[i].pc = "record"
Rejected == th' = th
\* make_kpa_request returns in this step
Returns(i) == th[i].pc # "idle" /\ th'[i].pc = "idle"
\* the block that the handling of an upstream 429 has set is still on
Blocked == rate_limit_state.blocked_until # 0 /\ now < rate_limit_state.blocked_until
WindowCount == Len(InWindow(rate_limit_state.requests, now))

\* C26: at every moment, under any interleaving of make_kpa_request, the
\* requests recorded inside the window are at most
\* KPA_RATE_LIMIT_PER_MINUTE.
C26_WindowWithinLimit == WindowCount <= KPA_RATE_LIMIT_PER_MINUTE

\* C27: the handling of an upstream 429 blocks for 60 seconds from then on;
\* a make_kpa_request that starts while the block is on is rejected with 429
\* and neither records nor sends anything; one that starts when the block
\* has passed, with the window below the limit, is admitted.
C27_BlockedAfterUpstream429 ==
  [][ /\ \A i \in Threads :
           (th[i].pc = "handle" /\ Returns(i))
              => rate_limit_state'.blocked_until = now + 60
      /\ (AdmissionStep /\ Blocked)
            => /\ Rejected
               /\ last'.status = 429 /\ last'.fetches = 0 /\ last'.t = now
               /\ rate_limit_state' = rate_limit_state
      /\ (AdmissionStep /\ ~Blocked /\ WindowCount < KPA_RATE_LIMIT_PER_MINUTE)
            => Admitted ]_vars

\* a call was rejected at once while the block was on and the window had room
C27_Witness ==
  /\ Blocked
  /\ WindowCount < KPA_RATE_LIMIT_PER_MINUTE
  /\ last.handler = "make_kpa_request" /\ last.t = now
  /\ last.status = 429 /\ last.fetches = 0

\* C28: a make_kpa_request that returns without network I/O has added no
\* timestamp to rate_limit_state['requests']: the limiter's rejection adds
\* none, and a call that has recorded one returns only after it has sent.
C28_OnlySentRequestsCounted ==
  [][ /\ (AdmissionStep /\ Rejected)
            => Len(rate_limit_state'.requests) <= Len(rate_limit_state.requests)
      /\ \A i \in Threads :
           (th[i].pc \in {"send", "handle"} /\ Returns(i))
              => last'.fetches >= 1 ]_vars


\* C29: under any interleaving of the cache steps of kpa_photo, no step
\* removes an entry that has not expired: the lazy eviction of _cache_get
\* takes out only entries with now > expiresAt.
C29_EvictsOnlyExpired ==
  [][ server = "kpa_photo_proxy"
      => \A k \in DOMAIN _cache :
           now <= _cache[k].exp => k \in DOMAIN _cache' ]_vars

====
